---- MODULE Spec2Model ----
(***************************************************************************)
(* fmriprep/cli/run.py: the command-line entry point main() and the       *)
(* workflow builder build_workflow() that main() runs in a separate       *)
(* multiprocessing.Process.                                                *)
(*                                                                         *)
(* The state is the parsed options, the process environment, the part of  *)
(* the filesystem the two functions touch, the manager-backed dictionary   *)
(* retval, the local variables of both functions and the position of each *)
(* process.  Calls into other packages (collect_participants,             *)
(* init_fmriprep_wf, generate_reports, Workflow.run, Workflow.write_graph, *)
(* yaml.load, os.makedirs) are nondeterministic in their outcome.         *)
(***************************************************************************)
EXTENDS Integers, Sequences, FiniteSets, TLC

VARIABLES
    opts,        \* argparse namespace returned by get_parser().parse_args()
    environ,     \* os.environ of the supervisor (names that are set)
    files,       \* regular files that exist
    dirs,        \* directories that exist
    made,        \* directories created by this invocation
    spc,         \* position of main()
    wpc,         \* position of build_workflow() in the child process
    retval,      \* mgr.dict() shared by main() and build_workflow()
    sv,          \* local variables of main()
    wv,          \* local variables of build_workflow()
    ncfg,        \* nipype configuration of the child process
    advisories,  \* logger.warning() calls of build_workflow()
    log,         \* sequence of phase events of the invocation
    reports,     \* calls of generate_reports, in order
    run_exc,     \* how fmriprep_wf.run(**plugin_settings) ended
    exit_code,   \* exit status of the supervisor process
    fault,       \* exception that left main() uncaught
    wfault,      \* exception that left build_workflow() uncaught
    cpu_count,   \* logical cores of the host, multiprocessing.cpu_count()
    peer         \* another invocation creating the same directories

vars == <<opts, environ, files, dirs, made, spc, wpc, retval, sv, wv, ncfg,
          advisories, log, reports, run_exc, exit_code, fault, wfault,
          cpu_count, peer>>

-----------------------------------------------------------------------------
(* Bounds of the model                                                     *)

\* largest failure count generate_reports returns
MaxFailures == 2

\* logical cores of the host of an ordinary invocation
HostCores == 4

-----------------------------------------------------------------------------
(* Values                                                                  *)

None == "None"

\* op.join(a, b)
Join(a, b) == IF a = "" THEN b ELSE a \o "/" \o b

\* Python's `a or b` on strings and None
PyOr(a, b) == IF a \in {None, ""} THEN b ELSE a

\* os.getenv(name, default)
Getenv(name, default) == IF name \in DOMAIN environ THEN environ[name] ELSE default

\* os.path.exists(path)
Exists(path) == path \in files \/ path \in dirs

\* the message of an exception is a sequence of words
ContainsAt(msg, phrase, i) ==
    /\ i + Len(phrase) - 1 <= Len(msg)
    /\ \A j \in 1..Len(phrase) : msg[i + j - 1] = phrase[j]

\* `phrase in str(e)`
Contains(msg, phrase) == \E i \in 1..Len(msg) : ContainsAt(msg, phrase, i)

\* the status itself, neither tested against zero nor clamped
IntOfPositiveUnclamped(x) == x

\* int(x > 0)
IntOfPositive(x) == IF x > 0 THEN 1 ELSE 0

-----------------------------------------------------------------------------
(* Command line, environment and filesystem the invocation starts from     *)

ArgLicense == "/arg/license.txt"
EnvLicense == "/env/license.txt"
FreesurferHome == "/opt/freesurfer"
ValidatedTemplate == "MNI152NLin2009cAsym"

\* --fs-license-file (type=os.path.abspath, so never the empty string)
LicenseArgChoices == {None, ArgLicense}

\* --template has a single choice
TemplateChoices == {ValidatedTemplate}

\* --output-space, default ['template', 'fsaverage5']
OutputSpaceChoices == {{"template", "fsaverage5"}, {"fsaverage5"}}

\* --nthreads, --omp-nthreads, --mem_mb: type=int, default 0
NThreadsChoices == {0, 2}
OmpNThreadsChoices == {0}
MemMbChoices == {0}

\* --use-plugin
PluginFile == "/cfg/plugin.yml"
UsePluginChoices == {None, PluginFile}

\* -w/--work-dir
WorkDirChoices == {None}

\* --run-uuid
PriorRunUuid == "20170101-000000_prior"
RunUuidChoices == {None, PriorRunUuid}

OptsChoices ==
    [fs_license_file : LicenseArgChoices,
     use_aroma : BOOLEAN,
     template : TemplateChoices,
     output_space : OutputSpaceChoices,
     use_syn_sdc : BOOLEAN,
     force_syn : BOOLEAN,
     nthreads : NThreadsChoices,
     omp_nthreads : OmpNThreadsChoices,
     mem_mb : MemMbChoices,
     use_plugin : UsePluginChoices,
     output_dir : {"/out"},
     work_dir : WorkDirChoices,
     stop_on_first_crash : {FALSE},
     resource_monitor : {FALSE},
     reports_only : BOOLEAN,
     run_uuid : RunUuidChoices,
     write_graph : BOOLEAN]

\* os.environ: FS_LICENSE unset, empty or a path; FREESURFER_HOME set
EnvironChoices ==
    {[n \in {"FREESURFER_HOME"} |-> FreesurferHome]} \cup
    {[n \in {"FREESURFER_HOME", "FS_LICENSE"} |->
         IF n = "FS_LICENSE" THEN v ELSE FreesurferHome] : v \in {"", EnvLicense}}

\* the files license resolution can look at
LicensePaths == {ArgLicense, EnvLicense, Join(FreesurferHome, "license.txt")}

\* mgr.dict()
EmptyRetval == [k \in {} |-> None]

\* a workflow slot holding Python's None
NoWorkflow == [kind |-> "None"]

\* no exception
NoException == [type |-> "None", msg |-> <<>>]

\* locals of main(); plugin_settings, subject_list and retcode join them
\* when lines 248-253 bind them
MainLocals ==
    [fmriprep_wf |-> NoWorkflow, output_dir |-> None, work_dir |-> None,
     run_uuid |-> None, license_file |-> None, errno |-> 0]

\* locals of build_workflow(); subject_list, nthreads, omp_nthreads and
\* plugin_settings join them when lines 328-356 bind them
BuildLocals ==
    [run_uuid |-> None, output_dir |-> None, log_dir |-> None,
     work_dir |-> None]

\* nipype's configuration before update_config
NoConfig == [k \in {} |-> None]

\* the supervisor process is still running: no exit status, which is 0..255
NotExited == -1

\* no other invocation is around
NoPeer == <<>>

\* main() is entered, nothing has been done yet
AtEntry ==
    /\ dirs = {}
    /\ made = {}
    /\ spc = "license"
    /\ wpc = "unborn"
    /\ retval = EmptyRetval
    /\ sv = MainLocals
    /\ wv = BuildLocals
    /\ ncfg = NoConfig
    /\ advisories = {}
    /\ log = <<>>
    /\ reports = <<>>
    /\ run_exc = NoException
    /\ exit_code = NotExited
    /\ fault = None
    /\ wfault = None

Init ==
    /\ opts \in OptsChoices
    /\ environ \in EnvironChoices
    /\ files \in SUBSET LicensePaths
    /\ cpu_count = HostCores
    /\ peer = NoPeer
    /\ AtEntry

-----------------------------------------------------------------------------
(* main()                                                                  *)

\* an exception leaves main() uncaught: the interpreter exits with status 1
Raise(exc) ==
    /\ spc' = "done"
    /\ fault' = exc
    /\ exit_code' = 1

\* sys.exit(status)
SysExit(status) ==
    /\ spc' = "done"
    /\ exit_code' = status
    /\ UNCHANGED fault

\* lines 217-219
DefaultLicense == Join(Getenv("FREESURFER_HOME", ""), "license.txt")
LicenseFile == PyOr(opts.fs_license_file, Getenv("FS_LICENSE", DefaultLicense))

\* the path is used without looking at the filesystem
LicenseNotChecked(path) == TRUE

\* line 220
LicenseFound(path) == Exists(path)

\* lines 216-228
ResolveLicense ==
    /\ spc = "license"
    /\ sv' = [sv EXCEPT !.license_file = LicenseFile]
    /\ IF LicenseFound(LicenseFile)
       THEN /\ environ' = [n \in DOMAIN environ \cup {"FS_LICENSE"} |->
                              IF n = "FS_LICENSE" THEN LicenseFile ELSE environ[n]]
            /\ spc' = "spawn"
            /\ UNCHANGED <<exit_code, fault>>
       ELSE /\ Raise("RuntimeError")
            /\ UNCHANGED environ
    /\ UNCHANGED <<cpu_count, peer, opts, files, dirs, made, wpc, retval, wv, ncfg, advisories,
                   log, reports, run_exc, wfault>>

\* lines 241-244: Manager(), mgr.dict(), Process(target=build_workflow), p.start()
SpawnWorker ==
    /\ spc = "spawn"
    /\ spc' = "join"
    /\ wpc' = "validate"
    /\ retval' = EmptyRetval
    /\ log' = Append(log, "spawn")
    /\ UNCHANGED <<cpu_count, peer, opts, environ, files, dirs, made, sv, wv, ncfg, advisories,
                   reports, run_exc, exit_code, fault, wfault>>

\* the supervisor does not wait for the child
WorkerTerminatedUnchecked == TRUE

\* the supervisor waits for the child to return from its target
WorkerTerminatedOnlyOnReturn == wpc = "exited"

\* p.join() returns once the child process has terminated
WorkerTerminated == wpc \in {"exited", "crashed"}

\* line 245
JoinWorker ==
    /\ spc = "join"
    /\ WorkerTerminated
    /\ spc' = "read"
    /\ UNCHANGED <<cpu_count, peer, opts, environ, files, dirs, made, wpc, retval, sv, wv, ncfg,
                   advisories, log, reports, run_exc, exit_code, fault, wfault>>

\* the keys main() reads, in the order it reads them
RetvalKeys == <<"workflow", "plugin_settings", "output_dir", "work_dir",
                "subject_list", "run_uuid", "return_code">>

\* retval[key] raises KeyError for a key the child never wrote
HasKeys(rv) == \A i \in 1..Len(RetvalKeys) : RetvalKeys[i] \in DOMAIN rv

\* lines 247-253
ReadRetval ==
    /\ spc = "read"
    /\ log' = Append(log, "read")
    /\ IF HasKeys(retval)
       THEN /\ sv' = [fmriprep_wf |-> retval["workflow"],
                       plugin_settings |-> retval["plugin_settings"],
                       output_dir |-> retval["output_dir"],
                       work_dir |-> retval["work_dir"],
                       subject_list |-> retval["subject_list"],
                       run_uuid |-> retval["run_uuid"],
                       retcode |-> retval["return_code"]] @@ sv
            /\ spc' = "check"
            /\ UNCHANGED <<exit_code, fault>>
       ELSE /\ Raise("KeyError")
            /\ UNCHANGED sv
    /\ UNCHANGED <<cpu_count, peer, opts, environ, files, dirs, made, wpc, retval, wv, ncfg,
                   advisories, reports, run_exc, wfault>>

\* no workflow counts as absent
WorkflowNeverNone(wf) == FALSE

\* `fmriprep_wf is None`
WorkflowIsNone(wf) == wf = NoWorkflow

\* lines 255-256
CheckWorkflow ==
    /\ spc = "check"
    /\ IF WorkflowIsNone(sv.fmriprep_wf)
       THEN SysExit(1)
       ELSE /\ spc' = "write_graph"
            /\ UNCHANGED <<exit_code, fault>>
    /\ UNCHANGED <<cpu_count, peer, opts, environ, files, dirs, made, wpc, retval, sv, wv, ncfg,
                   advisories, log, reports, run_exc, wfault>>

\* lines 258-259: fmriprep_wf.write_graph(...) returns or raises
WriteGraph ==
    /\ spc = "write_graph"
    /\ IF opts.write_graph
       THEN /\ log' = Append(log, "write_graph")
            /\ \E ok \in BOOLEAN :
                 IF ok
                 THEN /\ spc' = "reports_only"
                      /\ UNCHANGED <<exit_code, fault>>
                 ELSE Raise("GraphvizError")
       ELSE /\ spc' = "reports_only"
            /\ UNCHANGED <<log, exit_code, fault>>
    /\ UNCHANGED <<cpu_count, peer, opts, environ, files, dirs, made, wpc, retval, sv, wv, ncfg,
                   advisories, reports, run_exc, wfault>>

\* lines 261-262
ReportsOnlyExit ==
    /\ spc = "reports_only"
    /\ IF opts.reports_only
       THEN SysExit(IntOfPositive(sv.retcode))
       ELSE /\ spc' = "run"
            /\ UNCHANGED <<exit_code, fault>>
    /\ UNCHANGED <<cpu_count, peer, opts, environ, files, dirs, made, wpc, retval, sv, wv, ncfg,
                   advisories, log, reports, run_exc, wfault>>

\* lines 264-267: gc.collect(), then fmriprep_wf.run(**plugin_settings) is entered
RunBegin ==
    /\ spc = "run"
    /\ spc' = "running"
    /\ log' = Append(log, "run_begin")
    /\ UNCHANGED <<cpu_count, peer, opts, environ, files, dirs, made, wpc, retval, sv, wv, ncfg,
                   advisories, reports, run_exc, exit_code, fault, wfault>>

\* messages an exception of the execution engine carries
MsgUnclean == <<"Workflow", "did", "not", "execute", "cleanly", "Check", "log",
                "for", "details">>
MsgNodeCrash == <<"Node", "crashed">>

\* how fmriprep_wf.run() can end: it returns, the engine reports nodes that
\* failed (a RuntimeError with MsgUnclean), or the exception of a crashed node
\* comes through, a RuntimeError or not
RunOutcomes ==
    {NoException,
     [type |-> "RuntimeError", msg |-> MsgUnclean],
     [type |-> "RuntimeError", msg |-> MsgNodeCrash],
     [type |-> "OSError", msg |-> MsgNodeCrash]}

\* line 268: `except RuntimeError as e`
IsRuntimeError(exc) == exc.type = "RuntimeError"

\* every RuntimeError counts, whatever its message
PartialFailureAnyMessage(exc) == IsRuntimeError(exc)

\* lines 268-269
PartialFailure(exc) ==
    /\ IsRuntimeError(exc)
    /\ Contains(exc.msg, <<"Workflow", "did", "not", "execute", "cleanly">>)

\* lines 266-272
RunEnd ==
    /\ spc = "running"
    /\ log' = Append(log, "run_end")
    /\ \E exc \in RunOutcomes :
         /\ run_exc' = exc
         /\ IF exc = NoException
            THEN /\ spc' = "report"
                 /\ UNCHANGED <<sv, exit_code, fault>>
            ELSE IF PartialFailure(exc)
                 THEN /\ sv' = [sv EXCEPT !.errno = 1]
                      /\ spc' = "report"
                      /\ UNCHANGED <<exit_code, fault>>
                 ELSE /\ Raise(exc.type)
                      /\ UNCHANGED sv
    /\ UNCHANGED <<cpu_count, peer, opts, environ, files, dirs, made, wpc, retval, wv, ncfg,
                   advisories, reports, wfault>>

\* the record of one call of generate_reports
\* (result is the failure count it returned; returned is FALSE when it raised)
ReportCall(by, subject_list, output_dir, work_dir, run_uuid, returned, result) ==
    [by |-> by, subject_list |-> subject_list, output_dir |-> output_dir,
     work_dir |-> work_dir, run_uuid |-> run_uuid, returned |-> returned,
     result |-> result]

\* line 275: errno += generate_reports(...)
AddStatus(errno, n) == errno + n

\* lines 274-276: generate_reports returns a failure count or raises
ReportAndExit ==
    /\ spc = "report"
    /\ log' = Append(log, "report")
    /\ \/ \E n \in 0..MaxFailures :
            /\ sv' = [sv EXCEPT !.errno = AddStatus(sv.errno, n)]
            /\ reports' = Append(reports,
                   ReportCall("main", sv.subject_list, sv.output_dir,
                              sv.work_dir, sv.run_uuid, TRUE, n))
            /\ SysExit(IntOfPositive(sv'.errno))
       \/ /\ reports' = Append(reports,
                   ReportCall("main", sv.subject_list, sv.output_dir,
                              sv.work_dir, sv.run_uuid, FALSE, 0))
          /\ Raise("ReportError")
          /\ UNCHANGED sv
    /\ UNCHANGED <<cpu_count, peer, opts, environ, files, dirs, made, wpc, retval, wv, ncfg,
                   advisories, run_exc, wfault>>

MainStep ==
    \/ ResolveLicense
    \/ SpawnWorker
    \/ JoinWorker
    \/ ReadRetval
    \/ CheckWorkflow
    \/ WriteGraph
    \/ ReportsOnlyExit
    \/ RunBegin
    \/ RunEnd
    \/ ReportAndExit

-----------------------------------------------------------------------------
(* build_workflow(opts, retval), the target of the child process           *)

\* an exception leaves build_workflow() uncaught: the child process ends
WorkerRaise(exc) ==
    /\ wpc' = "crashed"
    /\ wfault' = exc
    /\ log' = Append(log, "worker_exit")

\* the output spaces are not looked at
AromaViolationTemplateOnly ==
    opts.use_aroma /\ opts.template # ValidatedTemplate

\* lines 308-309
AromaViolation ==
    /\ opts.use_aroma
    /\ \/ opts.template # ValidatedTemplate
       \/ "template" \notin opts.output_space

\* only a forced SyN is looked at
SynWithoutTemplateForcedOnly ==
    /\ "template" \notin opts.output_space
    /\ opts.force_syn

\* line 316
SynWithoutTemplate ==
    /\ "template" \notin opts.output_space
    /\ opts.use_syn_sdc \/ opts.force_syn

\* line 324: '%s_%s' % (strftime('%Y%m%d-%H%M%S'), uuid.uuid4())
FreshRunUuid == "20171102-101500_fresh"

\* lines 306-324
ValidateInputs ==
    /\ wpc = "validate"
    /\ IF AromaViolation \/ (SynWithoutTemplate /\ opts.force_syn)
       THEN /\ WorkerRaise("RuntimeError")
            /\ UNCHANGED <<advisories, wv>>
       ELSE /\ advisories' = IF SynWithoutTemplate
                             THEN advisories \cup {"syn_requires_template"}
                             ELSE advisories
            /\ wv' = [wv EXCEPT !.run_uuid = FreshRunUuid]
            /\ wpc' = "collect"
            /\ UNCHANGED <<log, wfault>>
    /\ UNCHANGED <<cpu_count, peer, opts, environ, files, dirs, made, spc, retval, sv, ncfg,
                   reports, run_exc, exit_code, fault>>

\* participants found in the dataset
Subjects == <<"01", "02">>

\* lines 326-329: collect_participants returns the list or raises
CollectParticipants ==
    /\ wpc = "collect"
    /\ \E ok \in BOOLEAN :
         IF ok
         THEN /\ wpc' = "plan"
              /\ wv' = [subject_list |-> Subjects] @@ wv
              /\ UNCHANGED <<log, wfault>>
         ELSE /\ WorkerRaise("BIDSError")
              /\ UNCHANGED wv
    /\ UNCHANGED <<cpu_count, peer, opts, environ, files, dirs, made, spc, retval, sv, ncfg,
                   advisories, reports, run_exc, exit_code, fault>>

Min(a, b) == IF a < b THEN a ELSE b

\* lines 332-334
NProcs(n) == IF n < 1 THEN cpu_count ELSE n

\* opts.mem_mb / 1024, an exact quotient
MemoryGb(mem_mb) == [num |-> mem_mb, den |-> 1024]

\* lines 336-346
ComputedPlugin(nthreads, mem_mb) ==
    [plugin |-> "MultiProc",
     plugin_args |->
         IF mem_mb # 0
         THEN [n_procs |-> nthreads, raise_insufficient |-> FALSE,
               maxtasksperchild |-> 1, memory_gb |-> MemoryGb(mem_mb)]
         ELSE [n_procs |-> nthreads, raise_insufficient |-> FALSE,
               maxtasksperchild |-> 1]]

\* documents the --use-plugin file can hold
PluginDocs ==
    {[plugin |-> "Linear"],
     [plugin |-> "MultiProc", plugin_args |-> [n_procs |-> 16]]}

\* the document's plugin with the computed plugin_args kept
OverloadPluginMerged(computed, doc) ==
    [plugin |-> doc.plugin, plugin_args |-> computed.plugin_args]

\* lines 349-352: plugin_settings = loadyml(f)
OverloadPlugin(computed, doc) == doc

\* lines 354-356
OmpNThreads(o, nthreads) ==
    IF o = 0 THEN Min(IF nthreads > 1 THEN nthreads - 1 ELSE cpu_count, 8) ELSE o

\* the total is not required to exceed one
OversubscribedAnyTotal(nthreads, omp_nthreads) == nthreads < omp_nthreads

\* line 358
Oversubscribed(nthreads, omp_nthreads) == 1 < nthreads /\ nthreads < omp_nthreads

\* lines 331-361: open(opts.use_plugin) and yaml load succeed or raise
PlanResources ==
    /\ wpc = "plan"
    /\ LET nthreads == NProcs(opts.nthreads)
           omp_nthreads == OmpNThreads(opts.omp_nthreads, nthreads)
           computed == ComputedPlugin(nthreads, opts.mem_mb)
       IN  \/ /\ wpc' = "mkdir_output"
              /\ \E plugin_settings \in
                    (IF opts.use_plugin # None
                     THEN {OverloadPlugin(computed, doc) : doc \in PluginDocs}
                     ELSE {computed}) :
                    wv' = [nthreads |-> nthreads,
                           omp_nthreads |-> omp_nthreads,
                           plugin_settings |-> plugin_settings] @@ wv
              /\ advisories' = IF Oversubscribed(nthreads, omp_nthreads)
                               THEN advisories \cup {"omp_exceeds_nthreads"}
                               ELSE advisories
              /\ UNCHANGED <<log, wfault>>
           \/ /\ opts.use_plugin # None
              /\ WorkerRaise("IOError")
              /\ UNCHANGED <<wv, advisories>>
    /\ UNCHANGED <<cpu_count, peer, opts, environ, files, dirs, made, spc, retval, sv, ncfg,
                   reports, run_exc, exit_code, fault>>

\* working directory of the process
Cwd == "/cwd"

\* op.abspath(path)
Abspath(path) == IF path = "work" THEN Join(Cwd, path) ELSE path

\* lines 364-366
OutputDir == Abspath(opts.output_dir)
LogDir == Join(Join(OutputDir, "fmriprep"), "logs")
WorkDir == Abspath(PyOr(opts.work_dir, "work"))

\* the directories os.makedirs(path) has to make on the way to path
Intermediate(path) ==
    IF path = LogDir THEN {OutputDir, Join(OutputDir, "fmriprep")} ELSE {}

\* exist_ok left at its default
ExistOkOmitted == FALSE

\* lines 369-371: exist_ok=True
ExistOk == TRUE

\* os.path.isdir(path); the root and the working directory are there
IsDir(path) == path \in dirs \/ path \in {"/", Cwd}

\* mkdir(path) fails because path exists, and makedirs lets the error through
MakedirsRefuses(path) ==
    \/ path \in files
    \/ IsDir(path) /\ ~ExistOk

\* os.makedirs(path, exist_ok=True): makes path and the missing directories
\* above it; raises FileExistsError when the path is in the way, or OSError
\* when the system does not let it make a directory
Makedirs(path, from, to) ==
    /\ wpc = from
    /\ \E ok \in BOOLEAN :
         IF ~ok
         THEN /\ WorkerRaise("OSError")
              /\ UNCHANGED <<dirs, made>>
         ELSE IF MakedirsRefuses(path)
              THEN /\ WorkerRaise("FileExistsError")
                   /\ UNCHANGED <<dirs, made>>
              ELSE /\ dirs' = dirs \cup Intermediate(path) \cup {path}
                   /\ made' = made \cup ((Intermediate(path) \cup {path}) \ dirs)
                   /\ wpc' = to
                   /\ UNCHANGED <<log, wfault>>
    /\ UNCHANGED <<cpu_count, peer, opts, environ, files, spc, retval, sv, wv, ncfg, advisories,
                   reports, run_exc, exit_code, fault>>

\* line 369
MakeOutputDir == Makedirs(OutputDir, "mkdir_output", "mkdir_log")

\* line 370
MakeLogDir == Makedirs(LogDir, "mkdir_log", "mkdir_work")

\* line 371
MakeWorkDir == Makedirs(WorkDir, "mkdir_work", "publish")

\* the switch alone decides
StopOnFirstCrashSwitchOnly == opts.stop_on_first_crash

\* line 383
StopOnFirstCrash == opts.stop_on_first_crash \/ opts.work_dir = None

\* lines 374-390
NipypeConfig ==
    [log_directory |-> LogDir,
     crashdump_dir |-> LogDir,
     stop_on_first_crash |-> StopOnFirstCrash,
     monitoring |-> opts.resource_monitor]

\* lines 363-366 and 373-401
ConfigureAndPublish ==
    /\ wpc = "publish"
    /\ wv' = [wv EXCEPT !.output_dir = OutputDir, !.log_dir = LogDir,
                        !.work_dir = WorkDir]
    /\ ncfg' = NipypeConfig
    /\ retval' = [k \in DOMAIN retval \cup
                        {"return_code", "plugin_settings", "output_dir",
                         "work_dir", "subject_list", "run_uuid", "workflow"} |->
                     CASE k = "return_code" -> 0
                       [] k = "plugin_settings" -> wv.plugin_settings
                       [] k = "output_dir" -> OutputDir
                       [] k = "work_dir" -> WorkDir
                       [] k = "subject_list" -> wv.subject_list
                       [] k = "run_uuid" -> wv.run_uuid
                       [] k = "workflow" -> NoWorkflow
                       [] OTHER -> retval[k]]
    /\ wpc' = "branch"
    /\ UNCHANGED <<cpu_count, peer, opts, environ, files, dirs, made, spc, sv, advisories, log,
                   reports, run_exc, exit_code, fault, wfault>>

\* the status of line 395 is left as it is
ReturnCodeUntouched(count) == 0

\* line 408: retval['return_code'] = generate_reports(...)
ReturnCode(count) == count

\* lines 403-409: generate_reports returns a failure count or raises
ReportsOnly ==
    /\ wpc = "branch"
    /\ opts.reports_only
    /\ LET run_uuid == IF opts.run_uuid # None THEN opts.run_uuid ELSE wv.run_uuid
       IN  /\ wv' = [wv EXCEPT !.run_uuid = run_uuid]
           /\ \/ \E n \in 0..MaxFailures :
                   /\ reports' = Append(reports,
                          ReportCall("build_workflow", wv.subject_list,
                                     wv.output_dir, wv.work_dir, run_uuid, TRUE, n))
                   /\ retval' = [retval EXCEPT !["return_code"] = ReturnCode(n)]
                   /\ wpc' = "exited"
                   /\ log' = log \o <<"worker_report", "worker_exit">>
                   /\ UNCHANGED wfault
              \/ /\ reports' = Append(reports,
                          ReportCall("build_workflow", wv.subject_list,
                                     wv.output_dir, wv.work_dir, run_uuid, FALSE, 0))
                 /\ wpc' = "crashed"
                 /\ wfault' = "ReportError"
                 /\ log' = log \o <<"worker_report", "worker_exit">>
                 /\ UNCHANGED retval
    /\ UNCHANGED <<cpu_count, peer, opts, environ, files, dirs, made, spc, sv, ncfg, advisories,
                   run_exc, exit_code, fault>>

\* the graph init_fmriprep_wf builds from its arguments
Workflow(subject_list, run_uuid, omp_nthreads, work_dir, output_dir) ==
    [kind |-> "Workflow", subject_list |-> subject_list, run_uuid |-> run_uuid,
     omp_nthreads |-> omp_nthreads, work_dir |-> work_dir,
     output_dir |-> output_dir]

\* lines 411-450: init_fmriprep_wf returns the graph or raises
BuildWorkflow ==
    /\ wpc = "branch"
    /\ ~opts.reports_only
    /\ \E ok \in BOOLEAN :
         IF ok
         THEN /\ wpc' = "exited"
              /\ retval' = [retval EXCEPT
                    !["workflow"] = Workflow(wv.subject_list, wv.run_uuid,
                                             wv.omp_nthreads, wv.work_dir,
                                             wv.output_dir),
                    !["return_code"] = 0]
              /\ log' = log \o <<"build", "worker_exit">>
              /\ UNCHANGED wfault
         ELSE /\ wpc' = "crashed"
              /\ wfault' = "WorkflowError"
              /\ log' = log \o <<"build", "worker_exit">>
              /\ UNCHANGED retval
    /\ UNCHANGED <<cpu_count, peer, opts, environ, files, dirs, made, spc, sv, wv, ncfg,
                   advisories, reports, run_exc, exit_code, fault>>

WorkerStep ==
    \/ ValidateInputs
    \/ CollectParticipants
    \/ PlanResources
    \/ MakeOutputDir
    \/ MakeLogDir
    \/ MakeWorkDir
    \/ ConfigureAndPublish
    \/ ReportsOnly
    \/ BuildWorkflow

Next == MainStep \/ WorkerStep



Spec == Init /\ [][Next]_vars

-----------------------------------------------------------------------------
(* Vocabulary of the properties                                            *)

Happened(e) == \E i \in DOMAIN log : log[i] = e

Count(e) == Cardinality({i \in DOMAIN log : log[i] = e})

\* every occurrence of b has an occurrence of a before it
Precedes(a, b) ==
    \A j \in DOMAIN log : log[j] = b => \E i \in 1..(j - 1) : log[i] = a

\* the calls of generate_reports made by main()
MainReports == SelectSeq(reports, LAMBDA c : c.by = "main")

\* the calls of generate_reports made by build_workflow()
WorkerReports == SelectSeq(reports, LAMBDA c : c.by = "build_workflow")

\* events that are a phase of the invocation doing work
PhaseEvents == {"build", "worker_report", "write_graph", "run_begin", "run_end",
                "report"}

\* --use-aroma asked for without resampling to the validated template
AromaInvalid ==
    /\ opts.use_aroma
    /\ opts.template # ValidatedTemplate \/ "template" \notin opts.output_space

\* --force-syn asked for without the template output space
ForcedSynInvalid == opts.force_syn /\ "template" \notin opts.output_space

-----------------------------------------------------------------------------
(* C1: in reports-only mode, once the build worker has delivered the       *)
(* status of generate_reports, the supervisor exits 0 when that status is  *)
(* zero and nonzero exactly when it is at least one.                       *)
C1_ReportsOnlyExitFollowsStatus ==
    (opts.reports_only /\ spc = "done" /\ wpc = "exited")
        => /\ exit_code = 0 <=> retval["return_code"] = 0
           /\ exit_code # 0 <=> retval["return_code"] >= 1

(* C2: in a full run whose report aggregation returns, the combined status *)
(* is 1 if the run raised "Workflow did not execute cleanly" and 0 if it   *)
(* returned, plus the failure count of generate_reports; the process exits *)
(* 1 when the combined status is positive and 0 otherwise.                 *)
C2_CombinedStatus ==
    (spc = "done" /\ Len(MainReports) > 0 /\ MainReports[1].returned)
        => LET n == MainReports[1].result
               ran == IF run_exc = NoException THEN 0 ELSE 1
           IN  /\ ~opts.reports_only
               /\ run_exc \in {NoException,
                               [type |-> "RuntimeError", msg |-> MsgUnclean]}
               /\ sv.errno = ran + n
               /\ exit_code = (IF ran + n > 0 THEN 1 ELSE 0)

\* unclean execution and two failing participants: combined status 3, exit 1
C2_Witness ==
    /\ spc = "done"
    /\ run_exc = [type |-> "RuntimeError", msg |-> MsgUnclean]
    /\ Len(MainReports) = 1
    /\ MainReports[1].result = 2
    /\ sv.errno = 3
    /\ exit_code = 1

(* C3: whenever a step of the build fails inside the worker, the worker    *)
(* still delivers a result with all its keys, an absent graph handle and a *)
(* nonzero status; no exception leaves the worker with the result missing. *)
C3_BuildFailuresCaptured ==
    wfault # None
        => /\ HasKeys(retval)
           /\ retval["workflow"] = NoWorkflow
           /\ retval["return_code"] > 0

(* C4: once the worker has terminated with no result or with an absent     *)
(* graph handle, the supervisor never visualises or executes a graph and   *)
(* never aggregates reports, and it ends with exit status 1.               *)
C4_AbsentGraphStopsSupervisor ==
    (wpc \in {"exited", "crashed"}
     /\ (~HasKeys(retval) \/ retval["workflow"] = NoWorkflow))
        => /\ spc \in {"join", "read", "check", "done"}
           /\ ~Happened("write_graph")
           /\ ~Happened("run_begin")
           /\ ~Happened("report")
           /\ spc = "done" => exit_code = 1

\* a worker that crashed before writing anything: the read fails, exit 1
C4_Witness ==
    /\ spc = "done"
    /\ wpc = "crashed"
    /\ retval = EmptyRetval
    /\ fault = "KeyError"
    /\ exit_code = 1

C6_PhaseOrdering ==
    /\ Precedes("worker_exit", "run_begin")
    /\ Happened("run_begin") => wpc = "exited"
    /\ Precedes("run_end", "report")
    /\ \A i, j \in DOMAIN log :
         (i < j /\ log[i] \in {"report", "worker_report"})
             => log[j] \notin PhaseEvents
    /\ (spc = "done" /\ Happened("run_end")
         /\ run_exc \in {NoException,
                         [type |-> "RuntimeError", msg |-> MsgUnclean]})
         => log[Len(log)] = "report"

\* a full run with every phase, in order
C6_Witness ==
    /\ spc = "done"
    /\ log = <<"spawn", "build", "worker_exit", "read", "write_graph",
               "run_begin", "run_end", "report">>

(* C7: the supervisor spawns at most one worker, and exactly one once it   *)
(* is past license resolution; it reads retval only after that worker has  *)
(* terminated, and nothing of the worker happens after the read.           *)
C7_ReadAfterWorkerExit ==
    /\ Count("spawn") <= 1
    /\ spc \in {"join", "read", "check", "write_graph", "reports_only", "run",
                "running", "report"} => Count("spawn") = 1
    /\ Precedes("spawn", "worker_exit")
    /\ Precedes("worker_exit", "read")
    /\ Happened("read") => wpc \in {"exited", "crashed"}
    /\ spc \in {"read", "check", "write_graph", "reports_only", "run",
                "running", "report"} => wpc \in {"exited", "crashed"}
    /\ \A i, j \in DOMAIN log :
         (i < j /\ log[i] = "read")
             => log[j] \notin {"spawn", "build", "worker_report", "worker_exit"}

\* the result has been read from a worker that returned
C7_Witness ==
    /\ spc = "check"
    /\ wpc = "exited"
    /\ log = <<"spawn", "build", "worker_exit", "read">>

(* C8, as stated: with an unresolvable license, an AROMA violation or      *)
(* forced SyN without the template space, no worker is ever spawned and no *)
(* directory is created.                                                   *)
C8_ValidationFailsBeforeSpawn ==
    (~Exists(LicenseFile) \/ AromaInvalid \/ ForcedSynInvalid)
        => /\ ~Happened("spawn")
           /\ wpc = "unborn"
           /\ made = {}
           /\ spc = "done" => exit_code # 0

(* C8, amended: every such failure ends the invocation with a nonzero exit *)
(* before any directory is created; an unresolvable license ends it before *)
(* the worker is spawned, an AROMA or forced-SyN violation is found by the *)
(* spawned worker as its first step, before anything else is done.         *)
C8_ValidationFailsBeforeDirectories ==
    /\ ~Exists(LicenseFile)
         => /\ ~Happened("spawn")
            /\ wpc = "unborn"
            /\ made = {}
            /\ spc \in {"license", "done"}
            /\ spc = "done" => (exit_code = 1 /\ fault = "RuntimeError")
    /\ (AromaInvalid \/ ForcedSynInvalid)
         => /\ made = {}
            /\ wpc \in {"unborn", "validate", "crashed"}
            /\ wpc = "crashed" => wfault = "RuntimeError"
            /\ retval = EmptyRetval
            /\ ~Happened("build")
            /\ spc \in {"license", "spawn", "join", "read", "done"}
            /\ spc = "done" => exit_code = 1

\* forced SyN without the template space: found by the worker, exit 1
C8_Witness ==
    /\ spc = "done"
    /\ opts.force_syn
    /\ ~opts.use_aroma
    /\ "template" \notin opts.output_space
    /\ wfault = "RuntimeError"
    /\ made = {}
    /\ exit_code = 1

(* C9: when AROMA is requested and the template is not the validated one   *)
(* or the output spaces lack "template", the build fails at its validation *)
(* step with a RuntimeError and no directory has been created.             *)
C9_AromaFailsBeforeDirectories ==
    AromaInvalid
        => /\ wpc \in {"unborn", "validate", "crashed"}
           /\ wpc = "crashed" => wfault = "RuntimeError"
           /\ made = {}

\* AROMA without the template space has failed the build
C9_Witness ==
    /\ wpc = "crashed"
    /\ opts.use_aroma
    /\ "template" \notin opts.output_space
    /\ wfault = "RuntimeError"
    /\ made = {}

(* C10: license resolution succeeds exactly when one of the three tiers    *)
(* (argument, FS_LICENSE, FREESURFER_HOME/license.txt) is non-empty and    *)
(* names an existing file; the first such tier is the license, and it is   *)
(* written to FS_LICENSE.                                                  *)
C10_FirstExistingTierWins ==
    [][spc = "license" /\ spc' # "license"
         => LET tiers == <<opts.fs_license_file, Getenv("FS_LICENSE", None),
                           DefaultLicense>>
                resolves(i) == tiers[i] \notin {None, ""} /\ Exists(tiers[i])
                first == CHOOSE i \in 1..3 :
                             resolves(i) /\ \A j \in 1..(i - 1) : ~resolves(j)
            IN  /\ spc' = "spawn" <=> \E i \in 1..3 : resolves(i)
                /\ spc' = "done" <=> \A i \in 1..3 : ~resolves(i)
                /\ spc' = "spawn"
                     => /\ sv'.license_file = tiers[first]
                        /\ environ'["FS_LICENSE"] = tiers[first]]_vars

-----------------------------------------------------------------------------
(* The resource planner over the integers the command line accepts         *)

\* largest --nthreads tried
MaxThreads == 2

\* largest --omp-nthreads tried
MaxOmpThreads == 5

\* largest host tried, one core above the cap of 8
MaxCores == 9

\* --mem_mb is type=int: a negative, the default, a positive
MemMbWide == {-1024, 0, 2048}

\* the license resolves by its third tier, the SyN and AROMA flags are off
PlanOptsChoices ==
    [fs_license_file : {None},
     use_aroma : {FALSE},
     template : TemplateChoices,
     output_space : {{"template", "fsaverage5"}},
     use_syn_sdc : {FALSE},
     force_syn : {FALSE},
     nthreads : -1..MaxThreads,
     omp_nthreads : -1..MaxOmpThreads,
     mem_mb : MemMbWide,
     use_plugin : UsePluginChoices,
     output_dir : {"/out"},
     work_dir : WorkDirChoices,
     stop_on_first_crash : {FALSE},
     resource_monitor : {FALSE},
     reports_only : BOOLEAN,
     run_uuid : {None},
     write_graph : {FALSE}]

InitPlan ==
    /\ opts \in PlanOptsChoices
    /\ environ = [FREESURFER_HOME |-> FreesurferHome]
    /\ files = {Join(FreesurferHome, "license.txt")}
    /\ cpu_count \in 1..MaxCores
    /\ peer = NoPeer
    /\ AtEntry

SpecPlan == InitPlan /\ [][Next]_vars

\* lines 331-361 have run and did not raise
Planned ==
    wpc \in {"mkdir_output", "mkdir_log", "mkdir_work", "publish", "branch",
             "exited"}

(* C11: for every requested total T, requested per-task count O and host   *)
(* core count C >= 1 the planner yields total = T if T >= 1 else C and     *)
(* per_task = O if O >= 1 else min(total - 1 if total > 1 else C, 8).      *)
C11_PlannerFormula ==
    Planned
        => LET T == opts.nthreads
               O == opts.omp_nthreads
               C == cpu_count
               total == IF T >= 1 THEN T ELSE C
               per_task == IF O >= 1
                           THEN O
                           ELSE Min(IF total > 1 THEN total - 1 ELSE C, 8)
           IN  /\ wv.nthreads = total
               /\ wv.omp_nthreads = per_task

(* C12: every plan the planner produces, for any integers the command line *)
(* accepts and any host core count C >= 1, has a total thread count >= 1   *)
(* and a per-task thread count >= 1.                                       *)
C12_ThreadCountsPositive ==
    Planned => wv.nthreads >= 1 /\ wv.omp_nthreads >= 1

\* --use-plugin was given and the planner has finished
Overridden == opts.use_plugin # None /\ Planned

(* C13, as stated: with an override document the plan in the BuildResult   *)
(* and used for execution is exactly the document, and the individual      *)
(* knobs have no effect on any part of the plan: in particular the         *)
(* per-task thread count is what it is with --nthreads left unset.         *)
C13_KnobsIgnoredUnderOverride ==
    Overridden
        => /\ wv.plugin_settings \in PluginDocs
           /\ wv.omp_nthreads =
                  IF opts.omp_nthreads = 0
                  THEN Min(IF cpu_count > 1 THEN cpu_count - 1 ELSE cpu_count, 8)
                  ELSE opts.omp_nthreads

(* C13, amended: with an override document the engine settings of the      *)
(* build, of the BuildResult and of the execution are exactly the          *)
(* document, whatever --nthreads and --mem_mb are; the per-task thread     *)
(* count is still derived from the total the planner computed from         *)
(* --nthreads.                                                             *)
C13_OverrideReplacesEngineSettings ==
    Overridden
        => /\ wv.plugin_settings \in PluginDocs
           /\ "plugin_settings" \in DOMAIN retval
                  => retval["plugin_settings"] = wv.plugin_settings
           /\ Happened("run_begin") => sv.plugin_settings = wv.plugin_settings
           /\ wv.omp_nthreads =
                  IF opts.omp_nthreads = 0
                  THEN Min(IF wv.nthreads > 1 THEN wv.nthreads - 1
                                              ELSE cpu_count, 8)
                  ELSE opts.omp_nthreads

\* the graph runs on the document although threads and memory were asked for
C13_Witness ==
    /\ Overridden
    /\ Happened("run_begin")
    /\ opts.nthreads = 2
    /\ opts.mem_mb = 2048
    /\ opts.omp_nthreads = 0
    /\ cpu_count = 4
    /\ sv.plugin_settings = [plugin |-> "Linear"]
    /\ wv.omp_nthreads = 1

-----------------------------------------------------------------------------
(* Termination                                                             *)

\* the program counters of the two processes; every step moves one of them
pcs == <<spc, wpc>>

\* every call returns or raises, and a process that can take a step takes it
SpecLive == Init /\ [][Next]_vars /\ WF_pcs(Next)

(* C14: when every collaborator call terminates, every invocation reaches  *)
(* a terminal exit, exactly one: after it nothing happens any more and the *)
(* status is settled; once the build worker has ended, by returning or by  *)
(* an uncaught exception, the supervisor leaves its wait for it; and every *)
(* path that ends in a fault ends with a nonzero exit status.              *)
C14_EveryInvocationTerminates ==
    /\ <>(spc = "done")
    /\ [][spc # "done"]_pcs
    /\ [](spc = "done" => exit_code \in {0, 1})
    /\ (spc = "join" /\ wpc \in {"exited", "crashed"}) ~> (spc # "join")
    /\ [](spc = "done" /\ (fault # None \/ wfault # None) => exit_code = 1)

\* the worker died of an uncaught exception and the supervisor has exited 1
C14_Witness ==
    /\ spc = "done"
    /\ wpc = "crashed"
    /\ wfault # None
    /\ Happened("read")
    /\ exit_code = 1

-----------------------------------------------------------------------------
(* The SyN check, the reports-only branch and the run identifier           *)

\* SyN correction asked for, either way, without the template output space
SynInvalid ==
    /\ opts.use_syn_sdc \/ opts.force_syn
    /\ "template" \notin opts.output_space

\* the worker has left the checks of lines 306-321
PastValidation == wpc \notin {"unborn", "validate"}

(* C15: SyN correction is requested and "template" is not an output space  *)
(* (the AROMA check before it passes).  Forced: the build fails with       *)
(* RuntimeError, no directory is made, no graph is built.  Only            *)
(* opportunistic: the advisory is emitted and the build goes on to         *)
(* participants, planning and directories.  The advisory is emitted in no  *)
(* other case.                                                             *)
C15_SynCheckOutcome ==
    /\ (SynInvalid /\ ~AromaInvalid /\ opts.force_syn /\ PastValidation)
           => /\ wpc = "crashed"
              /\ wfault = "RuntimeError"
              /\ made = {}
              /\ ~Happened("build")
              /\ "syn_requires_template" \notin advisories
    /\ (SynInvalid /\ ~AromaInvalid /\ ~opts.force_syn /\ PastValidation)
           => /\ "syn_requires_template" \in advisories
              /\ wfault # "RuntimeError"
              /\ wv.run_uuid # None
    /\ "syn_requires_template" \in advisories
           => SynInvalid /\ ~opts.force_syn

\* opportunistic SyN without the template: advised, and the directories made
C15_Witness ==
    /\ opts.use_syn_sdc
    /\ ~opts.force_syn
    /\ "template" \notin opts.output_space
    /\ "syn_requires_template" \in advisories
    /\ wpc = "publish"
    /\ LogDir \in made

(* C16: in reports-only mode the worker never calls init_fmriprep_wf and   *)
(* calls generate_reports once; when it returns, retval holds no workflow  *)
(* and the failure count generate_reports gave as return_code; main() then *)
(* neither writes or runs a graph nor calls generate_reports itself.       *)
C16_ReportsOnlyBranch ==
    opts.reports_only
        => /\ ~Happened("build")
           /\ Len(WorkerReports) <= 1
           /\ Count("worker_report") = Len(WorkerReports)
           /\ wpc = "exited"
                  => /\ Len(WorkerReports) = 1
                     /\ WorkerReports[1].returned
                     /\ retval["workflow"] = NoWorkflow
                     /\ retval["return_code"] = WorkerReports[1].result
           /\ Len(MainReports) = 0
           /\ ~Happened("write_graph")
           /\ ~Happened("run_begin")
           /\ ~Happened("report")

\* generate_reports counted two failures for the worker; main() has exited
C16_Witness ==
    /\ opts.reports_only
    /\ spc = "done"
    /\ wpc = "exited"
    /\ Len(WorkerReports) = 1
    /\ WorkerReports[1].result = 2
    /\ retval["return_code"] = 2
    /\ Len(MainReports) = 0

(* C17: one run identifier serves the whole invocation: the one stored in  *)
(* retval, the one given to init_fmriprep_wf and the one given to every    *)
(* generate_reports call are the same; it is the freshly generated one,    *)
(* except in reports-only mode with --run-uuid, where it is the supplied   *)
(* one; outside reports-only mode --run-uuid changes nothing.              *)
C17_OneRunIdentifier ==
    LET id == IF opts.reports_only /\ opts.run_uuid # None
              THEN opts.run_uuid
              ELSE FreshRunUuid
    IN  /\ wpc = "exited" => retval["run_uuid"] = id
        /\ \A i \in DOMAIN reports : reports[i].run_uuid = id
        /\ ("workflow" \in DOMAIN retval /\ retval["workflow"] # NoWorkflow)
               => retval["workflow"].run_uuid = id

-----------------------------------------------------------------------------
(* The oversubscription advisory and the memory budget                     *)

\* the planner has bound its locals, whatever happened afterwards
PlanBound == "omp_nthreads" \in DOMAIN wv

(* C18: the planner warns of oversubscription exactly when total > 1 and   *)
(* per_task > total; the per-task count it was given is kept as it is      *)
(* (T=2, O=5 stays 5); the warning does not fail the build: the graph is   *)
(* built with the oversubscribed count and a later failure is one of a     *)
(* later step.                                                             *)
C18_OversubscriptionAdvisory ==
    /\ ~PlanBound => "omp_exceeds_nthreads" \notin advisories
    /\ PlanBound
           => /\ "omp_exceeds_nthreads" \in advisories
                     <=> (wv.nthreads > 1 /\ wv.omp_nthreads > wv.nthreads)
              /\ opts.omp_nthreads >= 1 => wv.omp_nthreads = opts.omp_nthreads
              /\ wpc = "crashed"
                     => wfault \in {"OSError", "FileExistsError",
                                    "WorkflowError", "ReportError"}
              /\ ("workflow" \in DOMAIN retval /\ retval["workflow"] # NoWorkflow)
                     => retval["workflow"].omp_nthreads = wv.omp_nthreads

\* --nthreads 2 --omp-nthreads 5: warned, and the graph with 5 is running
C18_Witness ==
    /\ opts.nthreads = 2
    /\ opts.omp_nthreads = 5
    /\ "omp_exceeds_nthreads" \in advisories
    /\ spc = "running"
    /\ sv.fmriprep_wf.omp_nthreads = 5

(* C19: without --use-plugin the computed plugin arguments hold memory_gb  *)
(* if and only if --mem_mb M is at least 1, and then it is M / 1024; for   *)
(* every M < 1, negative ones included, memory_gb is absent.               *)
C19_MemoryBudgetIffPositive ==
    (PlanBound /\ opts.use_plugin = None)
        => LET plugin_args == wv.plugin_settings.plugin_args
           IN  /\ "memory_gb" \in DOMAIN plugin_args <=> opts.mem_mb >= 1
               /\ "memory_gb" \in DOMAIN plugin_args
                      => plugin_args.memory_gb = [num |-> opts.mem_mb, den |-> 1024]

-----------------------------------------------------------------------------
(* Directory creation next to other invocations on the same directories    *)

\* invocations running lines 369-371 beside this one
MaxPeers == 2

\* the three os.makedirs calls of lines 369-371, in order
Targets == <<OutputDir, LogDir, WorkDir>>

\* os.path.split(name)[0]
Parent(name) ==
    CASE name = OutputDir -> "/"
      [] name = Join(OutputDir, "fmriprep") -> OutputDir
      [] name = LogDir -> Join(OutputDir, "fmriprep")
      [] name = WorkDir -> Cwd
      [] OTHER -> ""

\* os.path.exists(path), the root and the working directory included
Present(path) == Exists(path) \/ IsDir(path)

\* a peer about to make its first directory
PeerAtStart == [pc |-> "check", target |-> 1, stack |-> <<Targets[1]>>]

\* os.makedirs: `if head and tail and not path.exists(head)`, then the
\* recursive call for head, itself starting with that test
PeerCheck(i) ==
    /\ i \in DOMAIN peer
    /\ peer[i].pc = "check"
    /\ LET name == peer[i].stack[Len(peer[i].stack)]
           head == Parent(name)
       IN  peer' = [peer EXCEPT ![i] =
                        IF head # "" /\ ~Present(head)
                        THEN [@ EXCEPT !.stack = Append(@, head)]
                        ELSE [@ EXCEPT !.pc = "mkdir"]]
    /\ UNCHANGED <<cpu_count, opts, environ, files, dirs, made, spc, wpc, retval, sv, wv,
                   ncfg, advisories, log, reports, run_exc, exit_code, fault,
                   wfault>>

\* what follows a finished mkdir: the caller's own mkdir, the next of the
\* three calls, or the end of the step
PeerAfter(p) ==
    IF Len(p.stack) > 1
    THEN [p EXCEPT !.stack = SubSeq(@, 1, Len(@) - 1)]
    ELSE IF p.target < Len(Targets)
         THEN [pc |-> "check", target |-> p.target + 1,
               stack |-> <<Targets[p.target + 1]>>]
         ELSE [pc |-> "done", target |-> p.target, stack |-> <<>>]

\* os.makedirs: mkdir(name); an existing head is passed over
\* (`except FileExistsError: pass`), an existing name is passed over when
\* exist_ok is set and it is a directory
PeerMkdir(i) ==
    /\ i \in DOMAIN peer
    /\ peer[i].pc = "mkdir"
    /\ LET p == peer[i]
           name == p.stack[Len(p.stack)]
       IN  IF ~Present(name)
           THEN /\ dirs' = dirs \cup {name}
                /\ peer' = [peer EXCEPT ![i] = PeerAfter(p)]
           ELSE /\ UNCHANGED dirs
                /\ peer' = [peer EXCEPT ![i] =
                       IF Len(p.stack) > 1 \/ (ExistOk /\ IsDir(name))
                       THEN PeerAfter(p)
                       ELSE [p EXCEPT !.pc = "failed"]]
    /\ UNCHANGED <<cpu_count, opts, environ, files, made, spc, wpc, retval, sv, wv, ncfg,
                   advisories, log, reports, run_exc, exit_code, fault, wfault>>

PeerStep == \E i \in 1..MaxPeers : PeerCheck(i) \/ PeerMkdir(i)

\* one configuration of the planner; the directories are the same for all
DirsOptsChoices ==
    {o \in PlanOptsChoices :
         /\ o.nthreads = 0
         /\ o.omp_nthreads = 0
         /\ o.mem_mb = 0
         /\ o.use_plugin = None}

InitDirs ==
    /\ opts \in DirsOptsChoices
    /\ environ = [FREESURFER_HOME |-> FreesurferHome]
    /\ files = {Join(FreesurferHome, "license.txt")}
    /\ cpu_count = HostCores
    /\ peer = [i \in 1..MaxPeers |-> PeerAtStart]
    /\ AtEntry

NextDirs == Next \/ PeerStep

SpecDirs == InitDirs /\ [][NextDirs]_vars

\* what one run of lines 369-371 leaves behind
SingleRunDirs == {OutputDir, Join(OutputDir, "fmriprep"), LogDir, WorkDir}

\* every peer has gone through its three calls
PeersDone == \A i \in DOMAIN peer : peer[i].pc = "done"

(* C20: the three os.makedirs calls can run again, and beside the same     *)
(* calls of other invocations on the same output and working directory in  *)
(* any interleaving: no invocation fails because a directory exists, and   *)
(* the directories there in the end are those of a single run.             *)
C20_DirectoriesRaceSafe ==
    /\ wfault # "FileExistsError"
    /\ \A i \in DOMAIN peer : peer[i].pc # "failed"
    /\ dirs \subseteq SingleRunDirs
    /\ PeersDone => dirs = SingleRunDirs
    /\ wpc \in {"publish", "branch", "exited"} => dirs = SingleRunDirs

\* all invocations are through; this one made some directories, not all
C20_Witness ==
    /\ PeersDone
    /\ wpc = "publish"
    /\ made # {}
    /\ made # SingleRunDirs
    /\ dirs = SingleRunDirs

-----------------------------------------------------------------------------
(* The stop-on-first-crash policy                                          *)

\* -w/--work-dir left out, given empty, given as a directory
WorkDirWide == {None, "", "/scratch"}

\* the switch and the working directory vary, the planner is at its defaults
CrashOptsChoices ==
    [fs_license_file : {None},
     use_aroma : {FALSE},
     template : TemplateChoices,
     output_space : {{"template", "fsaverage5"}},
     use_syn_sdc : {FALSE},
     force_syn : {FALSE},
     nthreads : {0},
     omp_nthreads : {0},
     mem_mb : {0},
     use_plugin : {None},
     output_dir : {"/out"},
     work_dir : WorkDirWide,
     stop_on_first_crash : BOOLEAN,
     resource_monitor : {FALSE},
     reports_only : BOOLEAN,
     run_uuid : {None},
     write_graph : BOOLEAN]

InitCrash ==
    /\ opts \in CrashOptsChoices
    /\ environ = [FREESURFER_HOME |-> FreesurferHome]
    /\ files = {Join(FreesurferHome, "license.txt")}
    /\ cpu_count = HostCores
    /\ peer = NoPeer
    /\ AtEntry

SpecCrash == InitCrash /\ [][Next]_vars

(* C21: the stop_on_first_crash setting the execution runs under is true   *)
(* exactly when --stop-on-first-crash was given or no -w/--work-dir was    *)
(* given, false with a working directory and no switch; the build sets it, *)
(* before the graph is built or run, and nothing changes it afterwards.    *)
C21_StopOnFirstCrashPolicy ==
    /\ [](ncfg # NoConfig
            => (ncfg.stop_on_first_crash
                  <=> (opts.stop_on_first_crash \/ opts.work_dir = None)))
    /\ [](wpc \in {"branch", "exited"} => ncfg # NoConfig)
    /\ [](Happened("build") \/ Happened("run_begin") => ncfg # NoConfig)
    /\ [][ncfg = NoConfig]_ncfg

\* no switch and no working directory: the graph runs stopping at a crash
C21_Witness ==
    /\ ~opts.stop_on_first_crash
    /\ opts.work_dir = None
    /\ spc = "running"
    /\ ncfg # NoConfig
    /\ ncfg.stop_on_first_crash

\* a working directory and no switch: the graph runs draining its branches
C21_WitnessExplicitWorkDir ==
    /\ ~opts.stop_on_first_crash
    /\ opts.work_dir = "/scratch"
    /\ spc = "running"
    /\ sv.work_dir = "/scratch"
    /\ ncfg # NoConfig
    /\ ~ncfg.stop_on_first_crash

====
